---- MODULE Spec2Model ----
(***************************************************************************)
(* The session / context manager of dominus-ai                             *)
(* (src/services/context_manager.py) and the chat handler of its HTTP      *)
(* bridge (src/services/context_bridge.py), as a state machine.            *)
(*                                                                         *)
(* Time is a discrete clock `now`; one unit is one hour, so the hard-coded *)
(* 3600 s lifetime of the cached continuation tokens is 1.  Token costs    *)
(* are kept in tenths (the code multiplies a word count by 1.3).           *)
(* An Optional value is <<>> for None and <<v>> for a value v.             *)
(* uuid4() is a source of fresh identifiers: a counter.                    *)
(***************************************************************************)
EXTENDS Integers, Sequences, FiniteSets, TLC

\* ------------------------------------------------------------- bounds
MaxSessions == 2
MaxAdds == 3
MaxTime == 2
MaxLifeAdds == 2
MaxChatAdds == 4
MaxFaultAdds == 1
MaxFaultSessions == 1
MaxReadAdds == 2
MaxReadSessions == 1

MaxMaxMessages == 2

\* ------------------------------------------------------ configuration
\* config['session_ttl'] (hours) and config['max_context_tokens'] as deployed
\* here; TokensTtl is the setex lifetime of the cached continuation tokens.
session_ttl == 1
max_context_tokens == 4
TokensTtl == 1

VARIABLES
    max_messages,   \* self.max_messages, fixed when the manager is configured
    conversations,  \* self.conversations: session id -> Conversation
    db,             \* table conversations: session id -> row
    redisAvail,     \* self.redis is not None
    failing,        \* the backends whose I/O raises just now: "db", "redis"
    redisSess,      \* redis keys session:<id>: id -> [data, expires]
    redisTok,       \* redis keys session:<id>:tokens: id -> [data, expires]
    now,            \* time.time()
    nextSid,        \* next value of uuid4() for a session id
    ret,            \* the last manager call: its name, arguments and result
    added,          \* history: session id -> every message add_message appended
    chat,           \* the handler thread: the request in progress, its locals
    lock,           \* self.lock: the thread that holds it, "none" when free
    worker,         \* the cleanup thread: its position and the errors it caught
    gen             \* /generate_with_tools: handle_generate_with_tools's locals

vars == <<max_messages, conversations, db, redisAvail, failing, redisSess, redisTok, now, nextSid,
          ret, added, chat, lock, worker, gen>>

\* The threads' own state, and what a /chat request leaves alone.
threadVars == <<chat, lock, worker, gen>>
sideVars == <<lock, worker, gen>>

\* ------------------------------------------------------------ values
None == <<>>
Some(v) == <<v>>
\* Python truth of an Optional[int] and of an Optional[List[int]].
Truthy(opt) == opt # None /\ opt[1] # 0
ListTruthy(opt) == opt # None /\ opt[1] # <<>>

\* A session id no uuid4() ever returned ("nonexistent-id"), and the absent id.
UnknownId == 0
NoSid == -1

Roles == {"user", "assistant", "system"}

\* Message contents, as character sequences.
ContentEmpty == <<>>
ContentHi == <<"h", "i">>
ContentAB == <<"a", " ", " ", "b">>
Contents == {ContentEmpty, ContentHi, ContentAB}

\* Metadata maps as the bridge passes them (decoded JSON objects).
EmptyMap == [k \in {} |-> 0]
UserMap == [k \in {"user"} |-> "alice"]
MetadataArgs == {Some(UserMap)}

\* The (role, content, tokens) arguments of add_message.
MsgInputs == {
    <<"user", ContentAB, None>>,
    <<"assistant", ContentHi, Some(3)>>,
    <<"system", ContentHi, Some(0)>> }

\* The max_tokens arguments of get_context (None: omitted).
MaxTokensArgs == {None, Some(0), Some(2), Some(3)}

\* The opaque continuation states a backend returns.
TokenLists == { <<>>, <<7>> }

Restrict(f, S) == [x \in S |-> f[x]]
Without(f, k) == Restrict(f, DOMAIN f \ {k})
Put(f, k, v) == (k :> v) @@ f

\* --------------------------------------------------------- Message
\* Message(role, content, timestamp, tokens) with __post_init__'s fresh id.
Message(role, content, timestamp, tokens, mid) ==
    [role |-> role, content |-> content, timestamp |-> timestamp,
     tokens |-> tokens, metadata |-> None, message_id |-> mid]

Message_to_dict(m) ==
    [role |-> m.role, content |-> m.content, timestamp |-> m.timestamp,
     tokens |-> m.tokens, metadata |-> m.metadata, message_id |-> m.message_id]

Message_from_dict(d) ==
    [role |-> d.role, content |-> d.content, timestamp |-> d.timestamp,
     tokens |-> d.tokens, metadata |-> d.metadata, message_id |-> d.message_id]

\* ----------------------------------------------------- Conversation
\* Conversation.add_message: append, bump updated_at, add the tokens if truthy.
Conversation_add_message(conv, msg, t) ==
    [conv EXCEPT !.messages = Append(@, msg),
                 !.updated_at = t,
                 !.total_tokens = IF Truthy(msg.tokens) THEN @ + msg.tokens[1] ELSE @]

\* len(content.split()): the number of maximal runs of non-blank characters.
RECURSIVE WordCountFrom(_, _, _)
WordCountFrom(s, i, inWord) ==
    IF i > Len(s) THEN 0
    ELSE IF s[i] = " " THEN WordCountFrom(s, i + 1, FALSE)
    ELSE (IF inWord THEN 0 ELSE 1) + WordCountFrom(s, i + 1, TRUE)

WordCount(s) == WordCountFrom(s, 1, FALSE)

\* msg.tokens or len(msg.content.split()) * 1.3, in tenths of a token.
MsgTokens10(m) ==
    IF Truthy(m.tokens) THEN 10 * m.tokens[1] ELSE 13 * WordCount(m.content)

\* The loop of get_context_window: i is the message looked at (from the newest),
\* count10 the cost accumulated; the result is the index of the first message kept.
RECURSIVE WindowStart(_, _, _, _)
WindowStart(msgs, i, count10, max10) ==
    IF i = 0 THEN 1
    ELSE IF count10 + MsgTokens10(msgs[i]) > max10 THEN i + 1
    ELSE WindowStart(msgs, i - 1, count10 + MsgTokens10(msgs[i]), max10)

get_context_window(conv, max_tokens) ==
    LET first == WindowStart(conv.messages, Len(conv.messages), 0, 10 * max_tokens)
    IN  SubSeq(conv.messages, first, Len(conv.messages))

\* to_dict without the continuation state.
Conversation_to_dict_no_context(conv) ==
    [session_id |-> conv.session_id,
     messages |-> [i \in 1..Len(conv.messages) |-> Message_to_dict(conv.messages[i])],
     created_at |-> conv.created_at,
     updated_at |-> conv.updated_at,
     total_tokens |-> conv.total_tokens,
     metadata |-> conv.metadata,
     context_tokens |-> None]

Conversation_to_dict(conv) ==
    [session_id |-> conv.session_id,
     messages |-> [i \in 1..Len(conv.messages) |-> Message_to_dict(conv.messages[i])],
     created_at |-> conv.created_at,
     updated_at |-> conv.updated_at,
     total_tokens |-> conv.total_tokens,
     metadata |-> conv.metadata,
     context_tokens |-> conv.context_tokens]

Conversation_from_dict(data) ==
    [session_id |-> data.session_id,
     messages |-> [i \in 1..Len(data.messages) |-> Message_from_dict(data.messages[i])],
     created_at |-> data.created_at,
     updated_at |-> data.updated_at,
     total_tokens |-> data.total_tokens,
     metadata |-> data.metadata,
     context_tokens |-> data.context_tokens]

\* ---------------------------------------------------- storage tiers
\* A row whose updated_at column is written once, at creation.
SaveRowCreatedStamp(conv) ==
    [data |-> Conversation_to_dict(conv),
     created_at |-> conv.created_at,
     updated_at |-> conv.created_at]

\* INSERT OR REPLACE of _save_conversation: the row of conv in the table.
SaveRow(conv) ==
    [data |-> Conversation_to_dict(conv),
     created_at |-> conv.created_at,
     updated_at |-> conv.updated_at]

\* sqlite3 and redis calls raise while their backend is failing.
DbFailing == "db" \in failing
RedisUsable == redisAvail /\ "redis" \notin failing

\* The except clause of _save_conversation swallows a failed write.
_save_conversation(table, conv) ==
    IF DbFailing THEN table ELSE Put(table, conv.session_id, SaveRow(conv))

\* A redis key set with setex lives until its time to live has run out.
RedisLive(store, k) == k \in DOMAIN store /\ now < store[k].expires
Setex(store, k, ttl, data) == Put(store, k, [data |-> data, expires |-> now + ttl])

\* _load_active_sessions: the rows updated after the cutoff, deserialized.
_load_active_sessions(table, t) ==
    LET cutoff == t - session_ttl
        rows == {s \in DOMAIN table : table[s].updated_at > cutoff}
    IN  [s \in rows |-> Conversation_from_dict(table[s].data)]

\* session_exists that looks in memory only.
ExistsTierMemoryOnly(sid) ==
    IF sid \in DOMAIN conversations THEN "memory" ELSE "none"

\* session_exists: where the session is found, memory first, then redis (an
\* exception there is passed over), then the table; "none" when no tier holds
\* it, "error" when the SELECT raises.
ExistsTier(sid) ==
    IF sid \in DOMAIN conversations THEN "memory"
    ELSE IF RedisUsable /\ RedisLive(redisSess, sid) THEN "redis"
    ELSE IF DbFailing THEN "error"
    ELSE IF sid \in DOMAIN db THEN "db"
    ELSE "none"

\* A lookup that promotes nothing.
PromotedNothing(sid) == conversations

\* A lookup that answers a hit below memory with a new, empty conversation
\* instead of the one it found.
PromotedEmpty(sid) ==
    IF ExistsTier(sid) \in {"redis", "db"}
    THEN Put(conversations, sid,
             [session_id |-> sid, messages |-> <<>>, created_at |-> now,
              updated_at |-> now, total_tokens |-> 0, metadata |-> EmptyMap,
              context_tokens |-> None])
    ELSE conversations

\* The in-memory map after session_exists(sid): a hit below memory is promoted.
Promoted(sid) ==
    CASE ExistsTier(sid) = "redis" ->
            Put(conversations, sid, Conversation_from_dict(redisSess[sid].data))
      [] ExistsTier(sid) = "db" ->
            Put(conversations, sid, Conversation_from_dict(db[sid].data))
      [] OTHER -> conversations

\* ------------------------------------------------------------- Init
InitManager ==
    /\ conversations = [s \in {} |-> 0]
    /\ db = [s \in {} |-> 0]
    /\ redisAvail \in BOOLEAN
    /\ failing = {}
    /\ redisSess = [s \in {} |-> 0]
    /\ redisTok = [s \in {} |-> 0]
    /\ now = 0
    /\ nextSid = 1
    /\ ret = [op |-> "init"]
    /\ added = [s \in {} |-> 0]
    /\ chat = [pc |-> "idle"]
    /\ lock = "none"
    /\ worker = [pc |-> "sleep", errors |-> 0, cutoff |-> 0]
    /\ gen = [pc |-> "idle"]

\* The lifecycle runs under the largest configured maximum.
Init == max_messages = MaxMaxMessages /\ InitManager

\* Every configured maximum of at least one message (the cache plays no part
\* where no time passes: the manager runs without it).
InitMessages ==
    /\ max_messages \in 1..MaxMaxMessages
    /\ InitManager
    /\ redisAvail = FALSE

\* The session ids a caller can name: the issued ones and an unknown one.
SidArgs == {UnknownId} \cup (1..(nextSid - 1))

\* ---------------------------------------------------------- actions
\* A creation whose uuid4() returns the first id again.
DoCreateReuseId(metadata) ==
    LET sid == 1
        conv == [session_id |-> sid, messages |-> <<>>,
                 created_at |-> now, updated_at |-> now, total_tokens |-> 0,
                 metadata |-> IF metadata = None THEN EmptyMap ELSE metadata[1],
                 context_tokens |-> None]
    IN  /\ nextSid <= MaxSessions
        /\ nextSid' = nextSid + 1
        /\ conversations' = Put(conversations, sid, conv)
        /\ db' = _save_conversation(db, conv)
        /\ redisSess' = redisSess
        /\ added' = IF sid \in DOMAIN added THEN added ELSE Put(added, sid, <<>>)

\* The state change of create_session, shared with get_or_create_session.
DoCreate(metadata) ==
    LET sid == nextSid
        conv == [session_id |-> sid, messages |-> <<>>,
                 created_at |-> now, updated_at |-> now, total_tokens |-> 0,
                 metadata |-> IF metadata = None THEN EmptyMap ELSE metadata[1],
                 context_tokens |-> None]
    IN  /\ nextSid <= MaxSessions
        /\ nextSid' = nextSid + 1
        /\ conversations' = Put(conversations, sid, conv)
        /\ db' = _save_conversation(db, conv)
        /\ redisSess' = IF RedisUsable
                        THEN Setex(redisSess, sid, session_ttl, Conversation_to_dict(conv))
                        ELSE redisSess
        /\ added' = Put(added, sid, <<>>)

\* create_session that gives up, with the exception, when the row cannot be written.
create_session_abort(metadata) ==
    IF DbFailing
    THEN /\ ret' = [op |-> "create_session", error |-> "OperationalError"]
         /\ UNCHANGED <<max_messages, conversations, db, redisAvail, failing, redisSess,
                        redisTok, now, nextSid, added>>
    ELSE /\ DoCreate(metadata)
         /\ ret' = [op |-> "create_session", error |-> "", result |-> nextSid]
         /\ UNCHANGED <<max_messages, redisAvail, failing, redisTok, now>>

create_session(metadata) ==
    /\ DoCreate(metadata)
    /\ ret' = [op |-> "create_session", error |-> "", result |-> nextSid]
    /\ UNCHANGED <<max_messages, redisAvail, failing, redisTok, now>>

\* The SELECT of line 245 sits in no try: its exception reaches the caller.
session_exists(sid) ==
    /\ conversations' = Promoted(sid)
    /\ ret' = IF ExistsTier(sid) = "error"
              THEN [op |-> "session_exists", sid |-> sid, error |-> "OperationalError"]
              ELSE [op |-> "session_exists", sid |-> sid, error |-> "",
                    result |-> ExistsTier(sid) # "none"]
    /\ UNCHANGED <<max_messages, db, redisAvail, failing, redisSess, redisTok, now, nextSid, added>>

get_or_create_session(sid) ==
    IF sid # NoSid /\ ExistsTier(sid) = "error"
    THEN /\ ret' = [op |-> "get_or_create_session", sid |-> sid,
                    error |-> "OperationalError"]
         /\ UNCHANGED <<max_messages, conversations, db, redisAvail, failing, redisSess,
                        redisTok, now, nextSid, added>>
    ELSE IF sid # NoSid /\ ExistsTier(sid) # "none"
    THEN /\ conversations' = Promoted(sid)
         /\ ret' = [op |-> "get_or_create_session", sid |-> sid, error |-> "",
                    result |-> sid]
         /\ UNCHANGED <<max_messages, db, redisAvail, failing, redisSess, redisTok, now, nextSid, added>>
    ELSE /\ DoCreate(None)
         /\ ret' = [op |-> "get_or_create_session", sid |-> sid, error |-> "",
                    result |-> nextSid]
         /\ UNCHANGED <<max_messages, redisAvail, failing, redisTok, now>>

\* Prune as a slice from the wrong end, conv.messages[:max_messages].
PruneKeepOldest(msgs) ==
    IF Len(msgs) > max_messages THEN SubSeq(msgs, 1, max_messages) ELSE msgs

\* conv.messages[-max_messages:], taken when the list is longer than max_messages.
Prune(msgs) ==
    IF Len(msgs) > max_messages
    THEN IF max_messages = 0 THEN msgs
         ELSE SubSeq(msgs, Len(msgs) - max_messages + 1, Len(msgs))
    ELSE msgs

\* The conversation add_message leaves in memory and saves.
AddedConv(conv, msg) ==
    LET c1 == Conversation_add_message(conv, msg, now)
    IN  [c1 EXCEPT !.messages = Prune(@)]

\* The number of messages appended so far, over all sessions.
RECURSIVE SumAdded(_)
SumAdded(S) ==
    IF S = {} THEN 0
    ELSE LET s == CHOOSE x \in S : TRUE IN Len(added[s]) + SumAdded(S \ {s})

TotalAdded == SumAdded(DOMAIN added)

\* uuid4() of Message.__post_init__: an id no other message has.
NewMessageId(sid) == <<sid, Len(added[sid]) + 1>>

\* add_message without the membership test, the conversation made on demand
\* (self.conversations.setdefault) instead of the ValueError.
add_message_setdefault(sid, role, content, tokens) ==
    LET msg == Message(role, content, now, tokens,
                       <<sid, (IF sid \in DOMAIN added THEN Len(added[sid]) ELSE 0) + 1>>)
        old == IF sid \in DOMAIN conversations THEN conversations[sid]
               ELSE [session_id |-> sid, messages |-> <<>>, created_at |-> now,
                     updated_at |-> now, total_tokens |-> 0, metadata |-> EmptyMap,
                     context_tokens |-> None]
        conv == AddedConv(old, msg)
    IN  /\ conversations' = Put(conversations, sid, conv)
        /\ db' = _save_conversation(db, conv)
        /\ added' = Put(added, sid,
                        Append(IF sid \in DOMAIN added THEN added[sid] ELSE <<>>, msg))
        /\ ret' = [op |-> "add_message", sid |-> sid, error |-> "", result |-> msg]
        /\ UNCHANGED <<max_messages, redisAvail, failing, redisSess, redisTok, now, nextSid>>

add_message(sid, role, content, tokens) ==
    IF sid \notin DOMAIN conversations
    THEN /\ ret' = [op |-> "add_message", sid |-> sid, error |-> "ValueError"]
         /\ UNCHANGED <<max_messages, conversations, db, redisAvail, failing, redisSess, redisTok, now,
                        nextSid, added>>
    ELSE LET msg == Message(role, content, now, tokens, NewMessageId(sid))
             conv == AddedConv(conversations[sid], msg)
         IN  /\ conversations' = [conversations EXCEPT ![sid] = conv]
             /\ db' = _save_conversation(db, conv)
             /\ added' = [added EXCEPT ![sid] = Append(@, msg)]
             /\ ret' = [op |-> "add_message", sid |-> sid, error |-> "", result |-> msg]
             /\ UNCHANGED <<max_messages, redisAvail, failing, redisSess, redisTok, now, nextSid>>

\* The value get_context returns in the current state.
ContextOf(sid, max_tokens) ==
    IF sid \notin DOMAIN conversations THEN <<>>
    ELSE get_context_window(conversations[sid],
             IF Truthy(max_tokens) THEN max_tokens[1] ELSE max_context_tokens)

\* get_context on a defaultdict: looking an unknown id up creates its conversation.
get_context_defaultdict(sid, max_tokens) ==
    /\ ret' = [op |-> "get_context", sid |-> sid, max_tokens |-> max_tokens,
               result |-> ContextOf(sid, max_tokens)]
    /\ conversations' =
           IF sid \in DOMAIN conversations THEN conversations
           ELSE Put(conversations, sid,
                    [session_id |-> sid, messages |-> <<>>, created_at |-> now,
                     updated_at |-> now, total_tokens |-> 0, metadata |-> EmptyMap,
                     context_tokens |-> None])
    /\ UNCHANGED <<max_messages, db, redisAvail, failing, redisSess, redisTok, now, nextSid, added>>

get_context(sid, max_tokens) ==
    /\ ret' = [op |-> "get_context", sid |-> sid, max_tokens |-> max_tokens,
               result |-> ContextOf(sid, max_tokens)]
    /\ UNCHANGED <<max_messages, conversations, db, redisAvail, failing, redisSess, redisTok, now, nextSid, added>>

update_context_tokens(sid, context_tokens) ==
    /\ IF sid \in DOMAIN conversations
       THEN LET conv == [conversations[sid] EXCEPT !.context_tokens = Some(context_tokens)]
            IN  /\ conversations' = [conversations EXCEPT ![sid] = conv]
                /\ db' = _save_conversation(db, conv)
                /\ redisTok' = IF RedisUsable
                               THEN Setex(redisTok, sid, TokensTtl, context_tokens)
                               ELSE redisTok
       ELSE UNCHANGED <<conversations, db, redisTok>>
    /\ ret' = [op |-> "update_context_tokens", sid |-> sid, tokens |-> context_tokens]
    /\ UNCHANGED <<max_messages, redisAvail, failing, redisSess, now, nextSid, added>>

\* The value get_context_tokens returns in the current state.
ContextTokensOf(sid) ==
    IF sid \in DOMAIN conversations /\ ListTruthy(conversations[sid].context_tokens)
    THEN conversations[sid].context_tokens
    ELSE IF RedisUsable /\ RedisLive(redisTok, sid) THEN Some(redisTok[sid].data)
    ELSE None

get_context_tokens(sid) ==
    /\ ret' = [op |-> "get_context_tokens", sid |-> sid, result |-> ContextTokensOf(sid)]
    /\ UNCHANGED <<max_messages, conversations, db, redisAvail, failing, redisSess, redisTok, now, nextSid, added>>

\* A cleanup that leaves the in-memory map alone.
CleanMemoryKeepAll(convs, cutoff) == convs

\* cleanup_old_sessions: the map and the table without the rows older than the cutoff.
CleanMemory(convs, cutoff) ==
    Restrict(convs, {s \in DOMAIN convs : ~(convs[s].updated_at < cutoff)})

\* A cleanup that forgets the DELETE on the table.
CleanTableNothing(table, cutoff) == table

CleanTable(table, cutoff) ==
    Restrict(table, {s \in DOMAIN table : ~(table[s].updated_at < cutoff)})

\* The memory is cleaned first; the DELETE sits in no try, so when it raises
\* the table is left as it was and the exception reaches the caller.
cleanup_old_sessions ==
    /\ conversations' = CleanMemory(conversations, now - session_ttl)
    /\ db' = IF DbFailing THEN db ELSE CleanTable(db, now - session_ttl)
    /\ ret' = [op |-> "cleanup_old_sessions",
               error |-> IF DbFailing THEN "OperationalError" ELSE ""]
    /\ UNCHANGED <<max_messages, redisAvail, failing, redisSess, redisTok, now, nextSid, added>>

\* The value get_session_info returns in the current state.
SessionInfoOf(sid) ==
    IF sid \notin DOMAIN conversations THEN None
    ELSE LET conv == conversations[sid]
         IN  Some([session_id |-> sid,
                   message_count |-> Len(conv.messages),
                   total_tokens |-> conv.total_tokens,
                   created_at |-> [isoformat |-> conv.created_at],
                   updated_at |-> [isoformat |-> conv.updated_at],
                   metadata |-> conv.metadata])

get_session_info(sid) ==
    /\ ret' = [op |-> "get_session_info", sid |-> sid, result |-> SessionInfoOf(sid)]
    /\ UNCHANGED <<max_messages, conversations, db, redisAvail, failing, redisSess, redisTok, now, nextSid, added>>

\* A process restart: a new ContextManager on the same table and the same redis.
\* _init_sqlite raises while the table is unreachable (no manager comes up);
\* _init_redis drops the cache for good when its ping fails.
Restart ==
    /\ ~DbFailing
    /\ conversations' = _load_active_sessions(db, now)
    /\ redisAvail' = RedisUsable
    /\ ret' = [op |-> "restart"]
    /\ UNCHANGED <<max_messages, db, failing, redisSess, redisTok, now, nextSid, added>>

Tick ==
    /\ now < MaxTime
    /\ now' = now + 1
    /\ UNCHANGED <<max_messages, conversations, db, redisAvail, failing, redisSess, redisTok, nextSid, ret, added>>

\* ------------------------------------------------- session classes
\* Some tier holds the session: the in-memory map, the cache or the table.
HeldBySomeTier(sid) ==
    \/ sid \in DOMAIN conversations
    \/ sid \in DOMAIN db
    \/ redisAvail /\ sid \in DOMAIN redisSess /\ now < redisSess[sid].expires

\* updated-at of a session some tier holds: the live conversation's, else the
\* row's, else the cached snapshot's.
UpdatedAtOf(s) ==
    IF s \in DOMAIN conversations THEN conversations[s].updated_at
    ELSE IF s \in DOMAIN db THEN db[s].updated_at
    ELSE redisSess[s].data.updated_at

\* What a request's session id refers to when the request arrives.
SessionClass(sid) ==
    IF sid = NoSid THEN "absent"
    ELSE IF ~HeldBySomeTier(sid) THEN "unknown"
    ELSE IF UpdatedAtOf(sid) < now - session_ttl THEN "expired"
    ELSE "live"

\* ------------------------------------------------------- the bridge
\* build_prompt_with_context: the parts that "\n\n".join puts together.
RECURSIVE HistoryParts(_)
HistoryParts(msgs) ==
    IF msgs = <<>> THEN <<>>
    ELSE LET m == Head(msgs)
             part == IF m.role = "user"
                     THEN << [label |-> "User: ", text |-> m.content] >>
                     ELSE IF m.role = "assistant"
                     THEN << [label |-> "Assistant: ", text |-> m.content] >>
                     ELSE <<>>
         IN  part \o HistoryParts(Tail(msgs))

\* lines 333-351: the parts of the prompt, from the window get_context returned.
PromptFrom(context, user_message, system_prompt) ==
    (IF system_prompt # None /\ system_prompt[1] # <<>>
     THEN << [label |-> "System: ", text |-> system_prompt[1] \o <<"\n">>] >>
     ELSE <<>>)
    \o HistoryParts(context)
    \o << [label |-> "User: ", text |-> user_message],
          [label |-> "Assistant:", text |-> <<>>] >>

PromptOf(sid, user_message, system_prompt) ==
    PromptFrom(ContextOf(sid, None), user_message, system_prompt)

build_prompt_with_context(sid, user_message, system_prompt) ==
    /\ ret' = [op |-> "build_prompt_with_context", sid |-> sid,
               user_message |-> user_message, system_prompt |-> system_prompt,
               result |-> PromptOf(sid, user_message, system_prompt)]
    /\ UNCHANGED <<max_messages, conversations, db, redisAvail, failing, redisSess, redisTok,
                   now, nextSid, added>>

managerVars == <<max_messages, conversations, db, redisAvail, failing, redisSess, redisTok,
                 now, nextSid, ret, added>>

\* The canned reply for an empty response that came with thinking text.
ContentCanned == <<"I", " ", "u">>
ContentThink == <<"t">>

\* The messages of /chat requests, the system prompts, and what the backend
\* answers: None when the call fails or times out.
ChatMessages == {ContentEmpty, ContentHi}
SystemPrompts == {None, Some(<<"s">>)}
Responses == {
    None,
    Some([response |-> ContentAB, thinking |-> <<>>, context |-> <<7>>]),
    Some([response |-> <<>>, thinking |-> ContentThink, context |-> <<>>]) }

ChatIdle == chat.pc \in {"idle", "done"}

\* send_json_response: the request is over; what it answered and on which session.
Done(status) ==
    [pc |-> "done", status |-> status, req_sid |-> chat.req_sid,
     session_id |-> chat.session_id, message |-> chat.message]

\* handle_chat, lines 93-109: parse, reject an empty message, resolve the session.
ChatBegin(req_sid, message, use_tokens, system_prompt) ==
    /\ ChatIdle
    /\ IF message = <<>>
       THEN /\ chat' = [pc |-> "done", status |-> 400, req_sid |-> req_sid,
                        session_id |-> NoSid, message |-> message]
            /\ UNCHANGED managerVars
       ELSE /\ get_or_create_session(req_sid)
            /\ chat' = [pc |-> "add_user", req_sid |-> req_sid,
                        req_class |-> SessionClass(req_sid),
                        session_id |-> ret'.result, message |-> message,
                        use_tokens |-> use_tokens, system_prompt |-> system_prompt,
                        context_tokens |-> None, request |-> None, reply |-> None,
                        status |-> 0, call_ticks |-> 0]

\* line 112: the user's message goes into the history; an exception is a 500.
ChatAddUser ==
    /\ chat.pc = "add_user"
    /\ add_message(chat.session_id, "user", chat.message, None)
    /\ chat' = IF ret'.error # "" THEN Done(500)
               ELSE [chat EXCEPT !.pc = "get_tokens"]

\* lines 118-120
ChatGetTokens ==
    /\ chat.pc = "get_tokens"
    /\ IF chat.use_tokens
       THEN /\ get_context_tokens(chat.session_id)
            /\ chat' = [chat EXCEPT !.pc = "build", !.context_tokens = ret'.result]
       ELSE /\ chat' = [chat EXCEPT !.pc = "build"]
            /\ UNCHANGED managerVars

\* lines 123-135: a continuation request, or the full prompt with the history.
ChatBuild ==
    /\ chat.pc = "build"
    /\ IF ListTruthy(chat.context_tokens)
       THEN /\ chat' = [chat EXCEPT !.pc = "call",
                          !.request = Some([prompt |-> << [label |-> "User: ",
                                                          text |-> chat.message],
                                                         [label |-> "Assistant:",
                                                          text |-> <<>>] >>,
                                            context |-> chat.context_tokens])]
            /\ UNCHANGED managerVars
       ELSE /\ build_prompt_with_context(chat.session_id, chat.message,
                                         chat.system_prompt)
            /\ chat' = [chat EXCEPT !.pc = "call",
                          !.request = Some([prompt |-> ret'.result, context |-> None])]

\* A handler that records the failed turn: it appends a canned assistant
\* message when the backend gave nothing.
ChatCallStoresFailure(resp) ==
    /\ chat.pc = "call"
    /\ IF resp = None
       THEN /\ add_message(chat.session_id, "assistant", ContentCanned, None)
            /\ chat' = Done(500)
       ELSE /\ UNCHANGED managerVars
            /\ chat' = [chat EXCEPT !.pc = "add_assistant",
                          !.reply = Some([resp[1] EXCEPT !.response =
                                      IF @ = <<>> /\ resp[1].thinking # <<>>
                                      THEN ContentCanned ELSE @])]

\* lines 137-153: the backend call, made outside the manager's lock.
ChatCall(resp) ==
    /\ chat.pc = "call"
    /\ UNCHANGED managerVars
    /\ chat' = IF resp = None THEN Done(500)
               ELSE [chat EXCEPT !.pc = "add_assistant",
                       !.reply = Some([resp[1] EXCEPT !.response =
                                   IF @ = <<>> /\ resp[1].thinking # <<>>
                                   THEN ContentCanned ELSE @])]

\* lines 156-158
ChatAddAssistant ==
    /\ chat.pc = "add_assistant"
    /\ add_message(chat.session_id, "assistant", chat.reply[1].response, None)
    /\ chat' = IF ret'.error # "" THEN Done(500)
               ELSE [chat EXCEPT !.pc = "update"]

\* lines 161-183
ChatUpdate ==
    /\ chat.pc = "update"
    /\ IF chat.reply[1].context # <<>>
       THEN update_context_tokens(chat.session_id, chat.reply[1].context)
       ELSE UNCHANGED managerVars
    /\ chat' = Done(200)

\* handle_session_create: POST /session/create with or without metadata.
SessionCreate(metadata) ==
    /\ ChatIdle
    /\ create_session(metadata)
    /\ UNCHANGED chat

\* urlopen(req, timeout=600): a backend call is over within minutes, so the
\* clock strikes the hour at most once while it lasts.
CallTicks == 1

\* An hour passes between requests or during the backend call; the handler's
\* own bookkeeping is local and takes no such time.
TickBridge ==
    /\ chat.pc \in {"idle", "done", "call"}
    /\ Tick
    /\ IF chat.pc = "call"
       THEN /\ chat.call_ticks < CallTicks
            /\ chat' = [chat EXCEPT !.call_ticks = @ + 1]
       ELSE UNCHANGED chat

\* The process dies with the request in flight.
RestartBridge ==
    /\ Restart
    /\ chat' = [pc |-> "idle"]

\* The arguments add_message is given in the lifecycle specification.
LifeMsgInputs == { <<"assistant", ContentHi, Some(3)>> }

LifeTokenLists == { <<7>> }

\* Messages and context windows: every manager call, at one instant.
NextMessages ==
    \/ /\ \E m \in MetadataArgs : create_session(m)
       /\ UNCHANGED threadVars
    \/ /\ TotalAdded < MaxAdds
       /\ \E sid \in SidArgs, a \in MsgInputs : add_message(sid, a[1], a[2], a[3])
       /\ UNCHANGED threadVars
    \/ /\ \E sid \in SidArgs, mt \in MaxTokensArgs : get_context(sid, mt)
       /\ UNCHANGED threadVars
    \/ /\ Restart
       /\ UNCHANGED threadVars

SpecMessages == InitMessages /\ [][NextMessages]_vars

\* The reading calls and the continuation state of one conversation, at one
\* instant, with and without the cache.
NextReads ==
    \/ /\ nextSid <= MaxReadSessions
       /\ \E m \in MetadataArgs : create_session(m)
       /\ UNCHANGED threadVars
    \/ /\ TotalAdded < MaxReadAdds
       /\ \E sid \in SidArgs, a \in MsgInputs : add_message(sid, a[1], a[2], a[3])
       /\ UNCHANGED threadVars
    \/ /\ \E sid \in SidArgs, mt \in MaxTokensArgs : get_context(sid, mt)
       /\ UNCHANGED threadVars
    \/ /\ \E sid \in SidArgs, sp \in SystemPrompts :
             build_prompt_with_context(sid, ContentHi, sp)
       /\ UNCHANGED threadVars
    \/ /\ \E sid \in SidArgs : get_session_info(sid)
       /\ UNCHANGED threadVars
    \/ /\ \E sid \in SidArgs, t \in TokenLists : update_context_tokens(sid, t)
       /\ UNCHANGED threadVars
    \/ /\ \E sid \in SidArgs : get_context_tokens(sid)
       /\ UNCHANGED threadVars
    \/ /\ Restart
       /\ UNCHANGED threadVars

SpecReads == Init /\ [][NextReads]_vars

\* The session lifecycle: time passes, sessions expire, the process restarts.
Next ==
    \/ /\ \E m \in MetadataArgs : create_session(m)
       /\ UNCHANGED threadVars
    \/ /\ \E sid \in SidArgs : session_exists(sid)
       /\ UNCHANGED threadVars
    \/ /\ \E sid \in SidArgs \cup {NoSid} : get_or_create_session(sid)
       /\ UNCHANGED threadVars
    \/ /\ TotalAdded < MaxLifeAdds
       /\ \E sid \in SidArgs, a \in LifeMsgInputs : add_message(sid, a[1], a[2], a[3])
       /\ UNCHANGED threadVars
    \/ /\ \E sid \in SidArgs, t \in LifeTokenLists : update_context_tokens(sid, t)
       /\ UNCHANGED threadVars
    \/ /\ cleanup_old_sessions
       /\ UNCHANGED threadVars
    \/ /\ Restart
       /\ UNCHANGED threadVars
    \/ /\ Tick
       /\ UNCHANGED threadVars

Spec == Init /\ [][Next]_vars

\* A backend starts failing (the cache only where the manager has one), or
\* answers again.
Fail(b) ==
    /\ b \notin failing
    /\ b = "redis" => redisAvail
    /\ failing' = failing \cup {b}
    /\ UNCHANGED <<max_messages, conversations, db, redisAvail, redisSess, redisTok, now,
                   nextSid, ret, added, chat, lock, worker, gen>>

Recover(b) ==
    /\ b \in failing
    /\ failing' = failing \ {b}
    /\ UNCHANGED <<max_messages, conversations, db, redisAvail, redisSess, redisTok, now,
                   nextSid, ret, added, chat, lock, worker, gen>>

\* The manager with its backends failing and recovering under it.
NextFaults ==
    \/ /\ nextSid <= MaxFaultSessions
       /\ \E m \in MetadataArgs : create_session(m)
       /\ UNCHANGED threadVars
    \/ /\ \E sid \in SidArgs : session_exists(sid)
       /\ UNCHANGED threadVars
    \/ /\ \E sid \in SidArgs :
             /\ nextSid <= MaxFaultSessions \/ ExistsTier(sid) # "none"
             /\ get_or_create_session(sid)
       /\ UNCHANGED threadVars
    \/ /\ TotalAdded < MaxFaultAdds
       /\ \E sid \in SidArgs, a \in LifeMsgInputs : add_message(sid, a[1], a[2], a[3])
       /\ UNCHANGED threadVars
    \/ /\ \E sid \in SidArgs, t \in LifeTokenLists : update_context_tokens(sid, t)
       /\ UNCHANGED threadVars
    \/ /\ \E sid \in SidArgs : get_context_tokens(sid)
       /\ UNCHANGED threadVars
    \/ /\ \E sid \in SidArgs : get_session_info(sid)
       /\ UNCHANGED threadVars
    \/ /\ cleanup_old_sessions
       /\ UNCHANGED threadVars
    \/ /\ Restart
       /\ UNCHANGED threadVars
    \/ /\ Tick
       /\ UNCHANGED threadVars
    \/ \E b \in {"db", "redis"} : Fail(b)
    \/ \E b \in {"db", "redis"} : Recover(b)

SpecFaults == Init /\ [][NextFaults]_vars

\* The bridge: one request at a time (socketserver.TCPServer), the cleanup
\* thread beside it.
NextBridge ==
    \/ /\ TotalAdded + 2 <= MaxChatAdds
       /\ \E req_sid \in SidArgs \cup {NoSid}, message \in ChatMessages,
             use_tokens \in BOOLEAN, system_prompt \in SystemPrompts :
             ChatBegin(req_sid, message, use_tokens, system_prompt)
       /\ UNCHANGED sideVars
    \/ ChatAddUser /\ UNCHANGED sideVars
    \/ ChatGetTokens /\ UNCHANGED sideVars
    \/ ChatBuild /\ UNCHANGED sideVars
    \/ (\E resp \in Responses : ChatCall(resp)) /\ UNCHANGED sideVars
    \/ ChatAddAssistant /\ UNCHANGED sideVars
    \/ ChatUpdate /\ UNCHANGED sideVars
    \/ (\E m \in MetadataArgs : SessionCreate(m)) /\ UNCHANGED sideVars
    \/ /\ cleanup_old_sessions
       /\ UNCHANGED threadVars
    \/ RestartBridge /\ UNCHANGED sideVars
    \/ TickBridge /\ UNCHANGED sideVars

SpecBridge == Init /\ [][NextBridge]_vars

\* ------------------------------------------------- the manager's lock
\* threading.RLock: a thread enters "with self.lock" when the lock is free or
\* its own; any other thread waits.
CanLockAlways(t) == TRUE

CanLock(t) == lock \in {"none", t}

MaxLockAdds == 3
MaxLockSessions == 1

\* add_message statement by statement, in the handler thread.
\* line 263: with self.lock
AddLock(sid, role, content, tokens) ==
    /\ chat.pc = "idle"
    /\ CanLock("handler")
    /\ lock' = "handler"
    /\ chat' = [pc |-> "am_locked", sid |-> sid, role |-> role, content |-> content,
                tokens |-> tokens, msg |-> None]
    /\ UNCHANGED <<managerVars, worker, gen>>

\* lines 264-268: the membership test (the ValueError leaves the with block and
\* frees the lock), then conv.add_message.
AddAppend ==
    /\ chat.pc = "am_locked"
    /\ IF chat.sid \notin DOMAIN conversations
       THEN /\ ret' = [op |-> "add_message", sid |-> chat.sid, error |-> "ValueError"]
            /\ lock' = "none"
            /\ chat' = [pc |-> "idle"]
            /\ UNCHANGED <<conversations, added>>
       ELSE LET msg == Message(chat.role, chat.content, now, chat.tokens,
                               NewMessageId(chat.sid))
            IN  /\ conversations' = [conversations EXCEPT ![chat.sid] =
                                       Conversation_add_message(@, msg, now)]
                /\ added' = [added EXCEPT ![chat.sid] = Append(@, msg)]
                /\ chat' = [chat EXCEPT !.pc = "am_appended", !.msg = Some(msg)]
                /\ UNCHANGED <<ret, lock>>
    /\ UNCHANGED <<max_messages, db, redisAvail, failing, redisSess, redisTok, now,
                   nextSid, worker, gen>>

\* lines 270-272
AddPrune ==
    /\ chat.pc = "am_appended"
    /\ conversations' = [conversations EXCEPT ![chat.sid].messages = Prune(@)]
    /\ chat' = [chat EXCEPT !.pc = "am_pruned"]
    /\ UNCHANGED <<max_messages, db, redisAvail, failing, redisSess, redisTok, now,
                   nextSid, ret, added, lock, worker, gen>>

\* lines 274-276: save, return the message, leave the with block.
AddSave ==
    /\ chat.pc = "am_pruned"
    /\ db' = _save_conversation(db, conversations[chat.sid])
    /\ ret' = [op |-> "add_message", sid |-> chat.sid, error |-> "",
               result |-> chat.msg[1]]
    /\ lock' = "none"
    /\ chat' = [pc |-> "idle"]
    /\ UNCHANGED <<max_messages, conversations, redisAvail, failing, redisSess, redisTok,
                   now, nextSid, added, worker, gen>>

\* A second thread calling the manager while the handler thread is inside
\* add_message: each of its calls is one "with self.lock" block.
NextLock ==
    \/ /\ TotalAdded < MaxLockAdds
       /\ \E sid \in SidArgs, a \in MsgInputs : AddLock(sid, a[1], a[2], a[3])
    \/ AddAppend
    \/ AddPrune
    \/ AddSave
    \/ /\ CanLock("client")
       /\ nextSid <= MaxLockSessions
       /\ \E m \in MetadataArgs : create_session(m)
       /\ UNCHANGED threadVars
    \/ /\ CanLock("client")
       /\ TotalAdded < MaxLockAdds
       /\ \E sid \in SidArgs, a \in LifeMsgInputs : add_message(sid, a[1], a[2], a[3])
       /\ UNCHANGED threadVars
    \/ /\ CanLock("client")
       /\ \E sid \in SidArgs, mt \in {None} : get_context(sid, mt)
       /\ UNCHANGED threadVars
    \/ /\ CanLock("client")
       /\ \E sid \in SidArgs : get_session_info(sid)
       /\ UNCHANGED threadVars
    \/ /\ CanLock("client")
       /\ \E sid \in SidArgs, t \in LifeTokenLists : update_context_tokens(sid, t)
       /\ UNCHANGED threadVars
    \/ /\ CanLock("worker")
       /\ cleanup_old_sessions
       /\ UNCHANGED threadVars
    \/ /\ Tick
       /\ UNCHANGED threadVars

SpecLock == InitMessages /\ [][NextLock]_vars

\* ---------------------------------------------------- the cleanup thread
MaxWorkerErrors == 1

\* A worker whose loop has no try/except: the first exception ends the thread.
WorkerDies == "dead"

\* _cleanup_worker, lines 50-53: the exception is printed and the loop goes on.
WorkerAfterError == "sleep"

\* time.sleep(3600) is over; cleanup_old_sessions lines 369-371 takes the
\* cutoff and enters the lock.
WorkerLock ==
    /\ worker.pc = "sleep"
    /\ CanLock("worker")
    /\ lock' = "worker"
    /\ worker' = [worker EXCEPT !.pc = "memory", !.cutoff = now - session_ttl]
    /\ UNCHANGED <<managerVars, chat, gen>>

\* lines 373-376
WorkerCleanMemory ==
    /\ worker.pc = "memory"
    /\ conversations' = CleanMemory(conversations, worker.cutoff)
    /\ worker' = [worker EXCEPT !.pc = "table"]
    /\ UNCHANGED <<max_messages, db, redisAvail, failing, redisSess, redisTok, now,
                   nextSid, ret, added, chat, lock, gen>>

\* lines 379-380, then the worker's try/except and the next sleep. The lock is
\* left either way.
WorkerCleanTable ==
    /\ worker.pc = "table"
    /\ lock' = "none"
    /\ IF DbFailing
       THEN /\ db' = db
            /\ ret' = [op |-> "cleanup_old_sessions", error |-> "OperationalError"]
            /\ worker' = [worker EXCEPT !.pc = WorkerAfterError,
                            !.errors = IF @ < MaxWorkerErrors THEN @ + 1 ELSE @]
       ELSE /\ db' = CleanTable(db, worker.cutoff)
            /\ ret' = [op |-> "cleanup_old_sessions", error |-> ""]
            /\ worker' = [worker EXCEPT !.pc = "sleep"]
    /\ UNCHANGED <<max_messages, conversations, redisAvail, failing, redisSess, redisTok,
                   now, nextSid, added, chat, gen>>

\* The store fails for a while: as long as the worker has caught fewer than
\* MaxWorkerErrors exceptions it may start failing again.
FailStore ==
    /\ worker.errors < MaxWorkerErrors
    /\ Fail("db")

MaxWorkerSessions == 2

\* Sessions are created and looked up and then left idle while the hours pass,
\* the cleanup thread runs and the store fails under it.
NextWorker ==
    \/ /\ CanLock("handler")
       /\ nextSid <= MaxWorkerSessions
       /\ \E m \in MetadataArgs : create_session(m)
       /\ UNCHANGED threadVars
    \/ /\ CanLock("handler")
       /\ \E sid \in SidArgs : session_exists(sid)
       /\ UNCHANGED threadVars
    \/ WorkerLock
    \/ WorkerCleanMemory
    \/ WorkerCleanTable
    \/ FailStore
    \/ Recover("db")
    \/ /\ Tick
       /\ UNCHANGED threadVars

\* The thread is scheduled again and again and takes its next statement when
\* it can; a failing store answers again after a while.
SpecWorker ==
    /\ Init
    /\ [][NextWorker]_vars
    /\ WF_vars(WorkerLock)
    /\ WF_vars(WorkerCleanMemory)
    /\ WF_vars(WorkerCleanTable)
    /\ WF_vars(Recover("db"))

\* ------------------------------------------- a /chat request and the lock
\* The lock the handler thread holds between two statements of handle_chat:
\* none, every manager method leaves its "with self.lock" before it returns.
HeldWholeTurn(pc) == IF pc \in {"idle", "done"} THEN "none" ELSE "handler"

HeldInRequest(pc) == "none"

\* build_prompt_with_context, line 331: get_context reads the window under the
\* lock (a continuation request reads nothing).
ChatBuildContext ==
    /\ chat.pc = "build"
    /\ IF ListTruthy(chat.context_tokens)
       THEN ChatBuild
       ELSE /\ get_context(chat.session_id, None)
            /\ chat' = [window |-> ret'.result] @@ [chat EXCEPT !.pc = "format"]

\* lines 333-351 and _build_initial_request: the prompt is put together from
\* the window after get_context has returned.
ChatBuildFormat ==
    /\ chat.pc = "format"
    /\ chat' = [chat EXCEPT !.pc = "call",
                  !.request = Some([prompt |-> PromptFrom(chat.window, chat.message,
                                                          chat.system_prompt),
                                    context |-> None])]
    /\ UNCHANGED managerVars

\* The statements of handle_chat that call the manager.
ManagerCalls == {"add_user", "get_tokens", "build", "add_assistant", "update"}

MaxTurnAdds == 4
MaxTurnSessions == 1

\* One /chat request after the other in the handler thread, cleanup statement
\* by statement in the cleanup thread.
NextTurn ==
    \/ /\ CanLock("handler")
       /\ TotalAdded + 2 <= MaxTurnAdds
       /\ \E req_sid \in SidArgs \cup {NoSid}, use_tokens \in BOOLEAN :
             /\ nextSid <= MaxTurnSessions \/ ExistsTier(req_sid) # "none"
             /\ ChatBegin(req_sid, ContentHi, use_tokens, None)
       /\ lock' = HeldInRequest(chat'.pc)
       /\ UNCHANGED <<worker, gen>>
    \/ /\ CanLock("handler")
       /\ ChatAddUser
       /\ lock' = HeldInRequest(chat'.pc)
       /\ UNCHANGED <<worker, gen>>
    \/ /\ CanLock("handler")
       /\ ChatGetTokens
       /\ lock' = HeldInRequest(chat'.pc)
       /\ UNCHANGED <<worker, gen>>
    \/ /\ CanLock("handler")
       /\ ChatBuildContext
       /\ lock' = HeldInRequest(chat'.pc)
       /\ UNCHANGED <<worker, gen>>
    \/ /\ ChatBuildFormat
       /\ UNCHANGED sideVars
    \/ /\ \E resp \in Responses : ChatCall(resp)
       /\ UNCHANGED sideVars
    \/ /\ CanLock("handler")
       /\ ChatAddAssistant
       /\ lock' = HeldInRequest(chat'.pc)
       /\ UNCHANGED <<worker, gen>>
    \/ /\ CanLock("handler")
       /\ ChatUpdate
       /\ lock' = HeldInRequest(chat'.pc)
       /\ UNCHANGED <<worker, gen>>
    \/ WorkerLock
    \/ WorkerCleanMemory
    \/ WorkerCleanTable
    \/ /\ TickBridge
       /\ UNCHANGED sideVars

SpecTurn == Init /\ [][NextTurn]_vars

\* --------------------------------------------- /generate_with_tools
MaxIterations == 2

\* What the backend answers to one generate call: an error (urlopen or the
\* JSON decoding raises), or a response text with the tool calls the parser
\* finds in it.
GenResponses ==
    { None,
      Some([text |-> "final", tool_calls |-> <<>>]),
      Some([text |-> "one", tool_calls |-> <<"a">>]),
      Some([text |-> "two", tool_calls |-> <<"a", "b">>]) }

\* tool_executor.execute returns a result in every case; format_tool_result
\* raises KeyError on the result of an unknown tool, which has no 'tool' key.
ToolOutcomes == {"formatted", "format_raises"}

GenVarsUnchanged == UNCHANGED <<managerVars, chat, lock, worker>>

\* lines 127-164: the request is parsed, the locals are set; `iteration` is
\* not bound before the loop binds it.
GenBegin(max_iterations) ==
    /\ gen.pc \in {"idle", "done"}
    /\ gen' = [pc |-> "loop", max_iterations |-> max_iterations, iteration |-> None,
               calls |-> 0, requested |-> <<>>, pending |-> <<>>,
               conversation |-> <<>>, tool_calls_made |-> <<>>,
               final_response |-> "", status |-> None, iterations |-> None]
    /\ GenVarsUnchanged

\* line 166: for iteration in range(max_iterations)
GenLoopGoesOn(n) == n < gen.max_iterations

GenIterate ==
    /\ gen.pc = "loop"
    /\ LET n == IF gen.iteration = None THEN 0 ELSE gen.iteration[1] + 1
       IN  gen' = IF GenLoopGoesOn(n)
                  THEN [gen EXCEPT !.pc = "call", !.iteration = Some(n)]
                  ELSE [gen EXCEPT !.pc = "respond"]
    /\ GenVarsUnchanged

\* lines 168-220 and 245-248: one backend call; an exception or a response
\* without tool calls ends the loop.
GenCall(resp) ==
    /\ gen.pc = "call"
    /\ gen' = IF resp = None
              THEN [gen EXCEPT !.pc = "respond", !.calls = @ + 1,
                               !.final_response = "Error during processing"]
              ELSE IF resp[1].tool_calls = <<>>
              THEN [gen EXCEPT !.pc = "respond", !.calls = @ + 1,
                               !.conversation = Append(@, [role |-> "assistant",
                                                           content |-> resp[1].text]),
                               !.final_response = resp[1].text]
              ELSE [gen EXCEPT !.pc = "tools", !.calls = @ + 1,
                               !.conversation = Append(@, [role |-> "assistant",
                                                           content |-> resp[1].text]),
                               !.requested = @ \o resp[1].tool_calls,
                               !.pending = resp[1].tool_calls]
    /\ GenVarsUnchanged

\* lines 223-243: the next tool call of the response is executed and recorded;
\* after the last one the loop goes on.
GenTool(outcome) ==
    /\ gen.pc = "tools"
    /\ LET tool == Head(gen.pending)
           made == Append(gen.tool_calls_made, tool)
       IN  gen' = IF outcome = "format_raises"
                  THEN [gen EXCEPT !.pc = "respond", !.tool_calls_made = made,
                                   !.final_response = "Error during processing"]
                  ELSE [gen EXCEPT !.pc = IF Tail(gen.pending) = <<>> THEN "loop"
                                          ELSE "tools",
                                   !.pending = Tail(@),
                                   !.tool_calls_made = made,
                                   !.conversation = Append(@, [role |-> "tool",
                                                               content |-> tool])]
    /\ GenVarsUnchanged

\* lines 250-266: the result is built and sent. `iteration + 1` raises
\* UnboundLocalError when the loop never ran: nothing is sent.
GenRespond ==
    /\ gen.pc = "respond"
    /\ gen' = IF gen.iteration = None
              THEN [gen EXCEPT !.pc = "done", !.status = Some("UnboundLocalError")]
              ELSE [gen EXCEPT !.pc = "done", !.status = Some("200"),
                               !.iterations = Some(gen.iteration[1] + 1)]
    /\ GenVarsUnchanged

NextTools ==
    \/ \E max_iterations \in 0..MaxIterations : GenBegin(max_iterations)
    \/ GenIterate
    \/ \E resp \in GenResponses : GenCall(resp)
    \/ \E outcome \in ToolOutcomes : GenTool(outcome)
    \/ GenRespond

SpecTools == Init /\ [][NextTools]_vars

\* =================================================================
\* Properties
\* =================================================================
Min(a, b) == IF a < b THEN a ELSE b

\* r is a contiguous suffix of h.
IsSuffix(r, h) ==
    /\ Len(r) <= Len(h)
    /\ r = SubSeq(h, Len(h) - Len(r) + 1, Len(h))

\* C1: after any sequence of k add_message calls on a session, its message list
\* holds at most max_messages messages and is exactly the last
\* min(k, max_messages) messages added, in the order they were added.
C1_FifoTruncation ==
    \A s \in DOMAIN conversations :
        LET k == Len(added[s])
            n == Min(k, max_messages)
        IN  /\ Len(conversations[s].messages) <= max_messages
            /\ conversations[s].messages = SubSeq(added[s], k - n + 1, k)

\* An add_message has just returned on a session that has dropped a message.
C1_Witness ==
    /\ ret.op = "add_message"
    /\ ret.error = ""
    /\ Len(added[ret.sid]) > max_messages
    /\ Len(conversations[ret.sid].messages) = max_messages

\* The cost the specification gives a message: the stored count when there is
\* one, else 1.3 per word (in tenths).
SpecCost10(m) == IF m.tokens # None THEN 10 * m.tokens[1] ELSE 13 * WordCount(m.content)

RECURSIVE SumCost10(_)
SumCost10(msgs) ==
    IF msgs = <<>> THEN 0 ELSE SpecCost10(Head(msgs)) + SumCost10(Tail(msgs))

\* The history of a session as get_context sees it.
HistoryOf(sid) ==
    IF sid \in DOMAIN conversations THEN conversations[sid].messages ELSE <<>>

\* C2: get_context(session_id, max_tokens) returns a contiguous suffix of the
\* history whose total cost does not exceed max_tokens (any supplied value
\* >= 0), or the configured ceiling when max_tokens is omitted.
C2_ContextWithinBudget ==
    ret.op = "get_context" =>
        LET budget == IF ret.max_tokens = None THEN max_context_tokens
                      ELSE ret.max_tokens[1]
        IN  /\ IsSuffix(ret.result, HistoryOf(ret.sid))
            /\ SumCost10(ret.result) <= 10 * budget

RECURSIVE SumKnownTokens(_)
SumKnownTokens(msgs) ==
    IF msgs = <<>> THEN 0
    ELSE (IF Head(msgs).tokens # None THEN Head(msgs).tokens[1] ELSE 0)
         + SumKnownTokens(Tail(msgs))

\* C9: a conversation's cumulative token count equals the sum of the known token
\* counts of the messages in its message sequence, after any number of
\* add_message calls.
C9_TotalIsSumOfKnown ==
    \A s \in DOMAIN conversations :
        conversations[s].total_tokens = SumKnownTokens(conversations[s].messages)

\* C3: add_message with a session id that no tier holds fails with ValueError
\* and changes nothing: the in-memory map and the table are as before.
C3_UnknownSessionRejected ==
    [][\A sid \in SidArgs, a \in LifeMsgInputs :
          (add_message(sid, a[1], a[2], a[3]) /\ ~HeldBySomeTier(sid)) =>
              /\ ret'.op = "add_message"
              /\ ret'.error = "ValueError"
              /\ conversations' = conversations
              /\ db' = db]_vars

\* add_message has just failed on the id of a session that cleanup removed,
\* while another session is live.
C3_Witness ==
    /\ ret.op = "add_message"
    /\ ret.error = "ValueError"
    /\ ret.sid \in DOMAIN added
    /\ ~HeldBySomeTier(ret.sid)
    /\ DOMAIN conversations # {}

\* C4: get_or_create_session(x) with an existing session id x returns x, creates
\* no session (no id is drawn, the table is as before, the in-memory map gains at
\* most x itself, by promotion) and leaves every conversation, x's included,
\* as it was stored.
C4_GetOrCreateIdempotent ==
    [][\A sid \in SidArgs :
          (get_or_create_session(sid) /\ HeldBySomeTier(sid)) =>
              /\ ret'.result = sid
              /\ nextSid' = nextSid
              /\ db' = db
              /\ DOMAIN conversations' = DOMAIN conversations \cup {sid}
              /\ \A s \in DOMAIN conversations : conversations'[s] = conversations[s]
              /\ (sid \notin DOMAIN conversations /\ sid \in DOMAIN db) =>
                     conversations'[sid] = db[sid].data]_vars

\* get_or_create_session has just returned the id it was given, of a session
\* with a message.
C4_Witness ==
    /\ ret.op = "get_or_create_session"
    /\ ret.sid = ret.result
    /\ ret.sid \in DOMAIN conversations
    /\ conversations[ret.sid].messages # <<>>

\* C5: after cleanup_old_sessions every session whose updated-at was older than
\* now - ttl is absent from the in-memory map and from the table, and every
\* session updated more recently is present and unchanged in both.
C5_CleanupRemovesExactlyExpired ==
    [][cleanup_old_sessions =>
          \A s \in DOMAIN conversations \cup DOMAIN db :
              /\ UpdatedAtOf(s) < now - session_ttl =>
                     s \notin DOMAIN conversations' /\ s \notin DOMAIN db'
              /\ UpdatedAtOf(s) > now - session_ttl =>
                     /\ s \in DOMAIN conversations /\ s \in DOMAIN db
                     /\ s \in DOMAIN conversations' /\ s \in DOMAIN db'
                     /\ conversations'[s] = conversations[s]
                     /\ db'[s] = db[s]]_vars

\* A cleanup has just removed one session and kept another.
C5_Witness ==
    /\ ret.op = "cleanup_old_sessions"
    /\ \E s \in DOMAIN added : s \notin DOMAIN conversations /\ s \notin DOMAIN db
    /\ \E s \in DOMAIN conversations : s \in DOMAIN db

\* C6: a conversation persisted to the table and reloaded by a new manager,
\* while within its ttl, is the same conversation: messages, timestamps,
\* token count, metadata and continuation state.
C6_RoundTrip ==
    [][Restart =>
          \A s \in DOMAIN conversations :
              conversations[s].updated_at > now - session_ttl =>
                  s \in DOMAIN conversations' /\ conversations'[s] = conversations[s]]_vars

\* A restart has just reloaded a conversation with a message, a token count,
\* metadata and a continuation state.
C6_Witness ==
    /\ ret.op = "restart"
    /\ \E s \in DOMAIN conversations :
          /\ conversations[s].messages # <<>>
          /\ conversations[s].total_tokens > 0
          /\ conversations[s].metadata = UserMap
          /\ conversations[s].context_tokens # None

\* C8 as claimed: add_message raises only for a session no tier holds.
C8_RaisesOnlyIfNoTierHolds ==
    (ret.op = "add_message" /\ ret.error = "ValueError") => ~HeldBySomeTier(ret.sid)

\* C8, amended: add_message raises exactly when the session is not in the
\* in-memory map, whatever the cache and the table hold; for a session in the
\* in-memory map it appends the message and returns it.
C8_RaisesIffNotInMemory ==
    [][\A sid \in SidArgs, a \in LifeMsgInputs :
          add_message(sid, a[1], a[2], a[3]) =>
              IF sid \in DOMAIN conversations
              THEN /\ ret'.error = ""
                   /\ ret'.result.role = a[1]
                   /\ ret'.result.content = a[2]
                   /\ ret'.result.tokens = a[3]
                   /\ sid \in DOMAIN conversations'
                   /\ conversations'[sid].messages # <<>>
                   /\ conversations'[sid].messages[Len(conversations'[sid].messages)]
                          = ret'.result
              ELSE /\ ret'.error = "ValueError"
                   /\ conversations' = conversations
                   /\ db' = db]_vars

\* add_message has just failed on a session that the table holds.
C8_Witness ==
    /\ ret.op = "add_message"
    /\ ret.error = "ValueError"
    /\ ret.sid \in DOMAIN db
    /\ ret.sid \notin DOMAIN conversations

\* C10: updated-at never decreases, and add_message and update_context_tokens
\* each set it to the time of the call, in memory and in the table's row.
C10_UpdatedAtBumped ==
    [][/\ \A s \in DOMAIN conversations \cap DOMAIN conversations' :
             conversations'[s].updated_at >= conversations[s].updated_at
       /\ \A sid \in DOMAIN conversations, a \in LifeMsgInputs :
             add_message(sid, a[1], a[2], a[3]) =>
                 /\ conversations'[sid].updated_at = now
                 /\ db'[sid].updated_at = now
                 /\ db'[sid].data.updated_at = now
       /\ \A sid \in DOMAIN conversations, t \in LifeTokenLists :
             update_context_tokens(sid, t) =>
                 /\ conversations'[sid].updated_at = now
                 /\ db'[sid].updated_at = now
                 /\ db'[sid].data.updated_at = now]_vars

\* C7: a chat request that names a session id no tier holds, or the id of an
\* expired session (cleaned up yet or not), is served on a newly created
\* session whose id differs from the one supplied.
C7_ExpiredOrUnknownStartsNew ==
    (chat.pc = "add_user" /\ chat.req_class \in {"unknown", "expired"})
        => /\ chat.session_id # chat.req_sid
           /\ chat.session_id \in DOMAIN conversations

\* The session ids issued so far.
Issued == 1..(nextSid - 1)

\* C11: once a session has been idle longer than the ttl and cleanup_old_sessions
\* has run to its end, session_exists answers false for its id and
\* get_session_info answers absent, and no tier makes a session that none
\* holds reappear.
C11_CleanedSessionGone ==
    [][/\ (cleanup_old_sessions /\ ret'.error = "") =>
              \A s \in Issued :
                  (HeldBySomeTier(s) /\ UpdatedAtOf(s) < now - session_ttl) =>
                      /\ ExistsTier(s)' = "none"
                      /\ SessionInfoOf(s)' = None
                      /\ ~HeldBySomeTier(s)'
       /\ \A s \in Issued : ~HeldBySomeTier(s) => ~HeldBySomeTier(s)']_vars

\* A cleanup has just run to its end and a session that had been cached, with
\* its continuation state, is held by no tier.
C11_Witness ==
    /\ ret.op = "cleanup_old_sessions"
    /\ ret.error = ""
    /\ redisAvail
    /\ \E s \in DOMAIN redisSess \cap DOMAIN redisTok :
          ~HeldBySomeTier(s) /\ ExistsTier(s) = "none" /\ SessionInfoOf(s) = None

\* C12: after a cleanup_old_sessions that completed only in part (the in-memory
\* deletion done, the DELETE on the table failed), no later call brings an
\* expired session back: the call that follows leaves every expired session
\* that only the table still holds out of the in-memory map.
C12_PartialCleanupNoResurrection ==
    [][(ret.op = "cleanup_old_sessions" /\ ret.error # "") =>
           \A s \in DOMAIN db \ DOMAIN conversations :
               db[s].updated_at < now - session_ttl => s \notin DOMAIN conversations']_vars

\* The manager's operations that the caller expects to return whatever the
\* backends do.
TolerantOps ==
    {"session_exists", "get_or_create_session", "get_context", "get_context_tokens",
     "get_session_info", "cleanup_old_sessions"}

\* C13: no operation of the manager propagates a failure of the table or of
\* the cache: session_exists, get_or_create_session, get_context,
\* get_context_tokens, get_session_info and cleanup_old_sessions return normally.
C13_NoIoFailurePropagates ==
    (ret.op \in TolerantOps /\ "error" \in DOMAIN ret) => ret.error = ""

\* C14: when the write to the table fails during create_session, add_message
\* or update_context_tokens, nothing is raised and the in-memory change stands:
\* the new session is in memory and found there, the message is appended and
\* returned, the continuation state is stored.
C14_SaveFailureKeepsMemory ==
    [][DbFailing =>
          /\ \A m \in MetadataArgs :
                create_session(m) =>
                    \E new \in {nextSid} :
                        /\ ret'.error = ""
                        /\ ret'.result = new
                        /\ new \in DOMAIN conversations'
                        /\ ExistsTier(new)' = "memory"
                        /\ db' = db
          /\ \A sid \in DOMAIN conversations, a \in LifeMsgInputs :
                add_message(sid, a[1], a[2], a[3]) =>
                    /\ ret'.error = ""
                    /\ ret'.result.role = a[1]
                    /\ ret'.result.content = a[2]
                    /\ conversations'[sid].messages
                           = Prune(Append(conversations[sid].messages, ret'.result))
                    /\ db' = db
          /\ \A sid \in DOMAIN conversations, t \in LifeTokenLists :
                update_context_tokens(sid, t) =>
                    /\ conversations'[sid].context_tokens = Some(t)
                    /\ conversations'[sid].messages = conversations[sid].messages
                    /\ db' = db]_vars

\* With the table failing throughout, a session was created, a message was
\* appended to it and returned, and no row was ever written.
C14_Witness ==
    /\ DbFailing
    /\ ret.op = "add_message"
    /\ ret.error = ""
    /\ ret.sid \in DOMAIN conversations
    /\ ret.sid \notin DOMAIN db
    /\ conversations[ret.sid].messages = << ret.result >>

\* C15: session_exists(id) answers true exactly when the memory, the cache or
\* the table holds the session; it looks in the memory first, then in the
\* cache, then in the table, and after a true answer the session is in the
\* in-memory map, so that the next lookup is answered from memory.
C15_ThreeTierLookup ==
    [][\A sid \in SidArgs :
          (session_exists(sid) /\ failing = {}) =>
              /\ ret'.error = ""
              /\ ret'.result = HeldBySomeTier(sid)
              /\ ret'.result => (sid \in DOMAIN conversations' /\ ExistsTier(sid)' = "memory")
              /\ \A s \in DOMAIN conversations : conversations'[s] = conversations[s]
              /\ DOMAIN conversations' \subseteq DOMAIN conversations \cup {sid}
              /\ (sid \notin DOMAIN conversations /\ redisAvail /\ RedisLive(redisSess, sid)) =>
                     conversations'[sid] = Conversation_from_dict(redisSess[sid].data)
              /\ (sid \notin DOMAIN conversations /\ ~(redisAvail /\ RedisLive(redisSess, sid))
                    /\ sid \in DOMAIN db) =>
                     conversations'[sid] = Conversation_from_dict(db[sid].data)]_vars

\* session_exists has just answered true from the cached snapshot: the session
\* is back in memory without the message it once had, and the table has no row.
C15_Witness ==
    /\ ret.op = "session_exists"
    /\ ret.error = ""
    /\ ret.result
    /\ ret.sid \in DOMAIN conversations
    /\ ret.sid \notin DOMAIN db
    /\ added[ret.sid] # <<>>
    /\ conversations[ret.sid].messages = <<>>
    /\ RedisLive(redisSess, ret.sid)

RoleLabel(role) ==
    CASE role = "user" -> "User: "
      [] role = "assistant" -> "Assistant: "
      [] role = "system" -> "System: "

RECURSIVE RenderAll(_)
RenderAll(msgs) ==
    IF msgs = <<>> THEN <<>>
    ELSE << [label |-> RoleLabel(Head(msgs).role), text |-> Head(msgs).content] >>
         \o RenderAll(Tail(msgs))

\* C17: build_prompt_with_context returns, in this order, the system-prompt
\* line when one is given, every message of get_context's result as
\* "<Role>: <content>" (user, assistant and system alike, none omitted), the
\* new user message and the trailing assistant marker.
C17_PromptRendersEveryMessage ==
    ret.op = "build_prompt_with_context" =>
        ret.result =
            (IF ret.system_prompt # None
             THEN << [label |-> "System: ", text |-> ret.system_prompt[1] \o <<"\n">>] >>
             ELSE <<>>)
            \o RenderAll(ContextOf(ret.sid, None))
            \o << [label |-> "User: ", text |-> ret.user_message],
                  [label |-> "Assistant:", text |-> <<>>] >>

\* C18: build_prompt_with_context, get_context and get_session_info change
\* nothing: the in-memory map with every conversation, the table and the cache
\* are as before, for known and unknown ids alike, and the same call made again
\* returns the same result.
C18_ReadsHaveNoEffect ==
    [][/\ ret'.op = "get_context" =>
             \A sid \in SidArgs, mt \in MaxTokensArgs :
                 get_context(sid, mt) =>
                     /\ UNCHANGED <<conversations, db, redisSess, redisTok>>
                     /\ ret'.result = ContextOf(sid, mt)'
       /\ ret'.op = "build_prompt_with_context" =>
             \A sid \in SidArgs, sp \in SystemPrompts :
                 build_prompt_with_context(sid, ContentHi, sp) =>
                     /\ UNCHANGED <<conversations, db, redisSess, redisTok>>
                     /\ ret'.result = PromptOf(sid, ContentHi, sp)'
       /\ ret'.op = "get_session_info" =>
             \A sid \in SidArgs :
                 get_session_info(sid) =>
                     /\ UNCHANGED <<conversations, db, redisSess, redisTok>>
                     /\ ret'.result = SessionInfoOf(sid)']_vars

\* A prompt has just been built over a history of two rendered messages, the
\* continuation state and the table's row of the session being in place.
C18_Witness ==
    /\ ret.op = "build_prompt_with_context"
    /\ ret.sid \in DOMAIN conversations
    /\ ret.sid \in DOMAIN db
    /\ Len(ret.result) > 3
    /\ conversations[ret.sid].context_tokens # None

\* C19: for a live session s and every continuation state t, any integer
\* sequence, get_context_tokens(s) returns exactly the t that the last
\* update_context_tokens(s, t) stored.
C19_TokensRoundTrip ==
    (/\ ret.op = "get_context_tokens"
     /\ ret.sid \in DOMAIN conversations
     /\ conversations[ret.sid].context_tokens # None)
        => ret.result = conversations[ret.sid].context_tokens

\* C20: get_context_tokens returns absent for an unknown or expired session:
\* once cleanup_old_sessions has removed a session, so that no tier holds it,
\* get_context_tokens for its id returns absent whatever the cache still has.
C20_TokensAbsentForRemoved ==
    (ret.op = "get_context_tokens" /\ ~HeldBySomeTier(ret.sid)) => ret.result = None

\* The newest message of a history, as <<role, content>>.
LastTurn(msgs) == <<msgs[Len(msgs)].role, msgs[Len(msgs)].content>>

\* The positions of handle_chat between the user's message and the reply.
AwaitingReply == {"get_tokens", "build", "call"}

\* C21: when the backend call fails (_call_ollama returns None) the request
\* is answered 500 and nothing is written: the user's message, appended
\* before the call, is the newest message of the session's history in memory
\* and in the store, no assistant message follows it, and from the moment the
\* user's message is in until the answer the session's continuation state
\* stays what it was.
C21_BackendFailureKeepsUserTurn ==
    [][ /\ (chat.pc = "call" /\ chat'.pc = "done") =>
             /\ chat'.status = 500
             /\ managerVars' = managerVars
             /\ chat.session_id \in DOMAIN conversations
             /\ conversations[chat.session_id].messages # <<>>
             /\ LastTurn(conversations[chat.session_id].messages)
                    = <<"user", chat.message>>
             /\ chat.session_id \in DOMAIN db
             /\ db[chat.session_id].data
                    = Conversation_to_dict(conversations[chat.session_id])
        /\ (chat.pc \in AwaitingReply /\ chat'.pc \in AwaitingReply \cup {"done"}) =>
             /\ chat.session_id \in DOMAIN conversations
             /\ chat.session_id \in DOMAIN conversations'
             /\ conversations'[chat.session_id].context_tokens
                    = conversations[chat.session_id].context_tokens
             /\ conversations'[chat.session_id].messages
                    = conversations[chat.session_id].messages ]_vars

\* A second turn whose backend call failed after the hour struck during it:
\* the turn's user message is the newest one, the first turn's continuation
\* state is still there.
C21_Witness ==
    /\ chat.pc = "done"
    /\ chat.status = 500
    /\ ret.op # "add_message"
    /\ chat.session_id \in DOMAIN conversations
    /\ Len(added[chat.session_id]) = 3
    /\ LastTurn(conversations[chat.session_id].messages) = <<"user", chat.message>>
    /\ conversations[chat.session_id].context_tokens = Some(<<7>>)
    /\ conversations[chat.session_id].updated_at < now

\* What a caller sees of a session: history and stored row, or nothing.
Consistent(sid) ==
    /\ Len(conversations[sid].messages) <= max_messages
    /\ sid \in DOMAIN db
    /\ db[sid].data = Conversation_to_dict(conversations[sid])

\* C22: add_message runs under the manager's lock, so every other manager
\* call on the session comes before it or after it: whenever another thread
\* can enter the manager, every history holds at most max_messages messages
\* and equals its stored row, no get_context or get_session_info result shows
\* more than max_messages messages, and no call made while an append is in
\* progress completes before the append has.
C22_AddMessageAtomic ==
    /\ lock = "none" => \A sid \in DOMAIN conversations : Consistent(sid)
    /\ chat.pc \in {"am_locked", "am_appended", "am_pruned"} => lock = "handler"
    /\ ret.op = "get_context" => Len(ret.result) <= max_messages
    /\ (ret.op = "get_session_info" /\ ret.result # None)
          => ret.result[1].message_count <= max_messages

\* The handler thread between append and truncation: one message too many in
\* memory, the row behind, the lock held.
C22_Witness ==
    /\ chat.pc = "am_appended"
    /\ lock = "handler"
    /\ Len(conversations[chat.sid].messages) = max_messages + 1
    /\ db[chat.sid].data # Conversation_to_dict(conversations[chat.sid])

\* A session idle for longer than session_ttl, in memory or in the table.
Expired(sid) ==
    \/ sid \in DOMAIN conversations /\ conversations[sid].updated_at < now - session_ttl
    \/ sid \in DOMAIN db /\ db[sid].updated_at < now - session_ttl

Gone(sid) == sid \notin DOMAIN conversations /\ sid \notin DOMAIN db

\* C25: the cleanup thread never stops: it starts a cleanup again and again,
\* an exception raised by one cleanup included, and so every session that has
\* been idle for longer than session_ttl is eventually in neither the memory
\* nor the table (the store failing only for a while).
C25_WorkerCleansForever ==
    /\ []<>(worker.pc = "memory")
    /\ \A sid \in 1..MaxWorkerSessions : Expired(sid) ~> Gone(sid)

\* The worker caught an exception, went on, and a later cleanup removed an
\* expired session from the table as well.
C25_Witness ==
    /\ worker.errors > 0
    /\ worker.pc = "sleep"
    /\ ret = [op |-> "cleanup_old_sessions", error |-> ""]
    /\ 1 \in Issued
    /\ Gone(1)
    /\ now > session_ttl

\* A step of the request in progress that calls the manager.
ManagerStep ==
    /\ chat.pc \in ManagerCalls
    /\ chat' # chat
    /\ chat'.pc # chat.pc

\* The step that puts the prompt together.
FormatStep == chat.pc = "format" /\ chat'.pc = "call"

\* C23 as stated: the bookkeeping and the whole prompt assembly of a request
\* run under the lock, that is, never while another thread holds it.
C23_AssemblyUnderLock ==
    [][ (ManagerStep \/ FormatStep) => lock \in {"none", "handler"} ]_vars

\* C23: every manager call of a chat request (appending the messages, reading
\* the continuation state, reading the context window) runs under the lock,
\* never while another thread holds it; the handler holds no lock while it
\* formats the prompt from the window it read and none when the backend call
\* starts or while it lasts, and during the call the cleanup thread can enter
\* the manager.
C23_NoLockDuringCall ==
    [][ /\ ManagerStep => lock \in {"none", "handler"}
        /\ chat'.pc \in {"format", "call"} => lock' # "handler"
        /\ (chat'.pc = "call" /\ worker'.pc = "sleep") => (ENABLED WorkerLock)' ]_vars

\* The backend call in progress and the cleanup thread inside the manager.
C23_Witness ==
    /\ chat.pc = "call"
    /\ lock = "worker"
    /\ worker.pc = "table"
    /\ chat.session_id \in DOMAIN conversations

\* C24: get_context selects the maximal fitting suffix: the result is a
\* contiguous suffix of the history (no older message once a newer one was
\* left out) and is either the whole history or such that the next older
\* message would push its total cost above the budget.
C24_MaximalFittingSuffix ==
    ret.op = "get_context" =>
        LET budget == IF ret.max_tokens = None THEN max_context_tokens
                      ELSE ret.max_tokens[1]
            h == HistoryOf(ret.sid)
            r == ret.result
        IN  /\ IsSuffix(r, h)
            /\ \/ r = h
               \/ SumCost10(r) + SpecCost10(h[Len(h) - Len(r)]) > 10 * budget

\* C26: however the cleanup interleaves with a chat request, the session that
\* get_or_create_session returned is in memory when the request's add_message
\* calls run, and no request ends with the session not found.
C26_SessionLiveThroughRequest ==
    /\ chat.pc \in {"add_user", "add_assistant"} =>
          (lock = "none" => chat.session_id \in DOMAIN conversations)
    /\ (chat.pc = "done" /\ chat.status = 500) =>
          ~(ret.op = "add_message" /\ ret.error = "ValueError")

\* The message the request in progress appended: the newest one of its session.
CurrentId == <<chat.session_id, Len(added[chat.session_id])>>

\* C27: without continuation state, the prompt sent to the backend renders
\* every message of the selected window once and the current user message
\* once, right before the assistant marker: it is the system line, the
\* window's earlier turns, the current user message, "Assistant:".
C27_PromptRendersTurnOnce ==
    (chat.pc = "call" /\ chat.request[1].context = None) =>
        LET earlier == SelectSeq(chat.window, LAMBDA m : m.message_id # CurrentId)
        IN  chat.request[1].prompt
               = PromptFrom(earlier, chat.message, chat.system_prompt)

\* The history a session has after its first k appends: the last
\* min(k, max_messages) of them.
HistoryAfter(sid, k) ==
    SubSeq(added[sid], k - Min(k, max_messages) + 1, k)

\* session_exists(sid) brings a conversation into memory.
Promotes(sid) ==
    /\ session_exists(sid)
    /\ sid \notin DOMAIN conversations
    /\ sid \in DOMAIN conversations'

\* C28 as stated: a promoted conversation holds every message a completed
\* add_message appended to the session (up to truncation).
C28_PromotionKeepsHistory ==
    [][\A sid \in SidArgs :
          Promotes(sid) =>
              conversations'[sid].messages = HistoryAfter(sid, Len(added[sid]))]_vars

\* r holds messages of h only, in the order they have in h.
RECURSIVE IsSubsequence(_, _)
IsSubsequence(r, h) ==
    IF r = <<>> THEN TRUE
    ELSE IF h = <<>> THEN FALSE
    ELSE IF Head(r) = Head(h) THEN IsSubsequence(Tail(r), Tail(h))
    ELSE IsSubsequence(r, Tail(h))

\* C28: session_exists brings a session held below memory into memory; the
\* promoted conversation is the store's record when there is one and the
\* snapshot cached at creation only when there is none (a cached snapshot is
\* never preferred over a record), and its history holds only messages that
\* add_message appended to the session, in the order they were appended.
C28_PromotionLoadsLatestRecord ==
    [][\A sid \in SidArgs :
          (session_exists(sid) /\ sid \notin DOMAIN conversations) =>
              /\ ExistsTier(sid) \in {"redis", "db"} => sid \in DOMAIN conversations'
              /\ sid \in DOMAIN conversations' =>
                    /\ conversations'[sid] =
                          IF sid \in DOMAIN db
                          THEN Conversation_from_dict(db[sid].data)
                          ELSE Conversation_from_dict(redisSess[sid].data)
                    /\ sid \notin DOMAIN db => conversations'[sid].messages = <<>>
                    /\ Len(conversations'[sid].messages) <= max_messages
                    /\ IsSubsequence(conversations'[sid].messages, added[sid])]_vars

\* A lookup has answered from the table, whose record is the one written at
\* creation: the message appended while the store was failing is not in it.
C28_Witness ==
    /\ ret.op = "session_exists"
    /\ ret.error = ""
    /\ ret.result
    /\ ret.sid \in DOMAIN db
    /\ ret.sid \in DOMAIN conversations
    /\ conversations[ret.sid] = Conversation_from_dict(db[ret.sid].data)
    /\ added[ret.sid] # <<>>
    /\ conversations[ret.sid].messages = <<>>
    /\ ~RedisLive(redisSess, ret.sid)

\* C29: absent storage failures, after every completed create_session,
\* add_message, update_context_tokens and cleanup_old_sessions (and every
\* other manager call) each session in memory has a row in the table, the
\* row's data is the serialized conversation (messages, token count,
\* timestamps, metadata, continuation state) and its updated_at and
\* created_at columns are the conversation's.
C29_MemoryEqualsRecord ==
    \A sid \in DOMAIN conversations :
        /\ sid \in DOMAIN db
        /\ db[sid].data = Conversation_to_dict(conversations[sid])
        /\ db[sid].updated_at = conversations[sid].updated_at
        /\ db[sid].created_at = conversations[sid].created_at

\* A session that has gone through an append and a continuation update,
\* most recently written by update_context_tokens after the clock moved.
C29_Witness ==
    /\ ret.op = "update_context_tokens"
    /\ ret.sid \in DOMAIN conversations
    /\ conversations[ret.sid].messages # <<>>
    /\ conversations[ret.sid].context_tokens = Some(<<7>>)
    /\ conversations[ret.sid].created_at < conversations[ret.sid].updated_at
    /\ db[ret.sid].updated_at = conversations[ret.sid].updated_at

\* C30: for every max_iterations >= 0 and every behaviour of the backend,
\* handle_generate_with_tools makes at most max_iterations backend calls,
\* stops at the first response without a tool call (its text is the
\* generated_text) or at the first backend error, executes the tool calls of
\* the earlier responses in order, and ends by sending a 200 whose iteration
\* count is the number of backend calls made.
C30_ToolLoopBoundedAnd200 ==
    /\ gen.pc # "idle" =>
          /\ gen.calls <= gen.max_iterations
          /\ \E k \in 0..Len(gen.requested) :
                gen.tool_calls_made = SubSeq(gen.requested, 1, k)
    /\ gen.pc = "done" =>
          /\ gen.status = Some("200")
          /\ gen.iterations = Some(gen.calls)

====
